---- MODULE Spec2Model ----
(***************************************************************************)
(* A model of the chess session of src/chess_engine.py (class ChessGame)   *)
(* and of the buttons of src/app.py that drive it.                         *)
(*                                                                         *)
(* The board is the chess.Board the class owns.  The rules the class asks  *)
(* of it (legal_moves, push, pop, is_capture, gives_check, is_check,       *)
(* is_checkmate, is_stalemate, is_game_over, piece_at, Move.from_uci,      *)
(* Move.uci) are modelled here by what they compute, on the full 8x8       *)
(* board with castling, en passant and promotion.                          *)
(***************************************************************************)
EXTENDS Integers, Sequences, FiniteSets, TLC

\* ------------------------------------------------------------------------
\* Squares, colours and piece types, numbered as the rules library does:
\* a1 = 0, b1 = 1, ..., h8 = 63; WHITE = True; PAWN..KING = 1..6.
\* A square of the board holds 0 (empty), +type (white) or -type (black).
\* ------------------------------------------------------------------------
Squares == 0 .. 63

WHITE == TRUE

BLACK == FALSE

PAWN == 1

KNIGHT == 2

BISHOP == 3

ROOK == 4

QUEEN == 5

KING == 6

File(s) == s % 8

Rank(s) == s \div 8

Sq(f, r) == 8 * r + f

Sign(color) == IF color THEN 1 ELSE -1

Abs(x) == IF x < 0 THEN -x ELSE x

Min2(a, b) == IF a < b THEN a ELSE b

A1 == 0

E1 == 4

H1 == 7

A8 == 56

E8 == 60

H8 == 63

D4 == 27

E4 == 28

D5 == 35

E5 == 36

\* CENTER_SQUARES = [chess.E4, chess.D4, chess.E5, chess.D5]
CENTER_SQUARES == {E4, D4, E5, D5}

\* The eight ray directions as (file step, rank step); 1..4 are the rook's,
\* 5..8 the bishop's.
DirF == <<1, -1, 0, 0, 1, 1, -1, -1>>

DirR == <<0, 0, 1, -1, 1, -1, 1, -1>>

\* How many steps a ray from s in direction d stays on the board.
RayLen(s, d) ==
    LET lf == IF DirF[d] = 1 THEN 7 - File(s) ELSE IF DirF[d] = -1 THEN File(s) ELSE 7
        lr == IF DirR[d] = 1 THEN 7 - Rank(s) ELSE IF DirR[d] = -1 THEN Rank(s) ELSE 7
    IN  Min2(lf, lr)

\* Rays[s][d]: the squares met going from s in direction d, nearest first.
Rays ==
    [s \in Squares |->
        [d \in 1 .. 8 |->
            [k \in 1 .. RayLen(s, d) |-> s + k * (DirF[d] + 8 * DirR[d])]]]

KnightAttacks ==
    [s \in Squares |->
        {t \in Squares :
            LET df == Abs(File(t) - File(s))
                dr == Abs(Rank(t) - Rank(s))
            IN  (df = 1 /\ dr = 2) \/ (df = 2 /\ dr = 1)}]

KingAttacks ==
    [s \in Squares |->
        {t \in Squares :
            /\ t # s
            /\ Abs(File(t) - File(s)) <= 1
            /\ Abs(Rank(t) - Rank(s)) <= 1}]

\* PawnCaptures[color][s]: the squares a pawn of that colour on s attacks.
PawnCaptures ==
    [color \in BOOLEAN |->
        [s \in Squares |->
            {t \in Squares :
                /\ Rank(t) = Rank(s) + Sign(color)
                /\ Abs(File(t) - File(s)) = 1}]]

\* ------------------------------------------------------------------------
\* chess.Board(): the starting position.
\* ------------------------------------------------------------------------
BackRank == <<ROOK, KNIGHT, BISHOP, QUEEN, KING, BISHOP, KNIGHT, ROOK>>

StartSquares ==
    [s \in Squares |->
        CASE Rank(s) = 0 -> BackRank[File(s) + 1]
          [] Rank(s) = 1 -> PAWN
          [] Rank(s) = 6 -> -PAWN
          [] Rank(s) = 7 -> -BackRank[File(s) + 1]
          [] OTHER -> 0]

NoSquare == -1

\* A position: what the library's _board_state() snapshot holds.
StartPosition ==
    [sq |-> StartSquares,
     turn |-> WHITE,
     castling_rights |-> {A1, H1, A8, H8},
     ep_square |-> NoSquare,
     halfmove_clock |-> 0]

\* The board object: the position, the moves pushed (move_stack) and the
\* positions they were pushed on (_stack), which pop() and the repetition
\* count read.
NewBoard ==
    [pos |-> StartPosition, move_stack |-> <<>>, stack |-> <<>>]

\* chess.Move: promotion 0 is None.
Move(f, t, p) == [from_square |-> f, to_square |-> t, promotion |-> p]

NullMove == Move(0, 0, 0)

\* ------------------------------------------------------------------------
\* Attacks.
\* ------------------------------------------------------------------------
RECURSIVE FirstOccupied(_, _, _)
\* The index in ray of the first occupied square from index i on, or
\* Len(ray) + 1 if the rest of the ray is empty.
FirstOccupied(sq, ray, i) ==
    IF i > Len(ray) THEN i
    ELSE IF sq[ray[i]] # 0 THEN i
    ELSE FirstOccupied(sq, ray, i + 1)

\* Board.is_attacked_by(color, square).
is_attacked_by(sq, color, s) ==
    LET c == Sign(color) IN
    \/ \E t \in KnightAttacks[s] : sq[t] = c * KNIGHT
    \/ \E t \in KingAttacks[s] : sq[t] = c * KING
    \/ \E t \in PawnCaptures[~color][s] : sq[t] = c * PAWN
    \/ \E d \in 1 .. 8 :
          LET ray == Rays[s][d]
              h == FirstOccupied(sq, ray, 1)
          IN  /\ h <= Len(ray)
              /\ \/ sq[ray[h]] = c * QUEEN
                 \/ d <= 4 /\ sq[ray[h]] = c * ROOK
                 \/ d > 4 /\ sq[ray[h]] = c * BISHOP

\* Board.king(color): the square of that colour's king.
king(sq, color) == CHOOSE s \in Squares : sq[s] = Sign(color) * KING

\* Board.is_check(): the side to move is attacked on its king.
is_check(pos) == is_attacked_by(pos.sq, ~pos.turn, king(pos.sq, pos.turn))

\* ------------------------------------------------------------------------
\* Board.push(move) on a position: the square, right and clock updates.
\* ------------------------------------------------------------------------
\* Board.is_castling(move): a king move of more than one file, or of the king
\* onto a rook of its own colour.
is_castling_on(pos, m) ==
    /\ Abs(pos.sq[m.from_square]) = KING
    /\ \/ Abs(File(m.to_square) - File(m.from_square)) > 1
       \/ pos.sq[m.to_square] = Sign(pos.turn) * ROOK

\* Board.is_en_passant(move).
is_en_passant_on(pos, m) ==
    /\ pos.ep_square = m.to_square
    /\ Abs(pos.sq[m.from_square]) = PAWN
    /\ Abs(m.to_square - m.from_square) \in {7, 9}
    /\ pos.sq[m.to_square] = 0

\* Board.is_zeroing(move): a pawn move or a capture.
is_zeroing(pos, m) ==
    \/ Abs(pos.sq[m.from_square]) = PAWN
    \/ pos.sq[m.to_square] # 0

PushPosition(pos, m) ==
    LET piece == pos.sq[m.from_square]
        c == Sign(pos.turn)
        placed == IF m.promotion # 0 THEN c * m.promotion ELSE piece
        moved == [pos.sq EXCEPT ![m.from_square] = 0, ![m.to_square] = placed]
        epDone == IF is_en_passant_on(pos, m)
                  THEN [moved EXCEPT ![m.to_square - 8 * c] = 0]
                  ELSE moved
        kingSide == File(m.to_square) > File(m.from_square)
        rookFrom == Sq(IF kingSide THEN 7 ELSE 0, Rank(m.from_square))
        rookTo == Sq(IF kingSide THEN 5 ELSE 3, Rank(m.from_square))
        done == IF is_castling_on(pos, m)
                THEN [epDone EXCEPT ![rookFrom] = 0, ![rookTo] = c * ROOK]
                ELSE epDone
        touched == pos.castling_rights \ {m.from_square, m.to_square}
        rights == IF Abs(piece) = KING
                  THEN {r \in touched : Rank(r) # (IF pos.turn THEN 0 ELSE 7)}
                  ELSE touched
        ep == IF Abs(piece) = PAWN /\ Abs(m.to_square - m.from_square) = 16
              THEN m.from_square + 8 * c
              ELSE NoSquare
    IN  [sq |-> done,
         turn |-> ~pos.turn,
         castling_rights |-> rights,
         ep_square |-> ep,
         halfmove_clock |-> IF is_zeroing(pos, m) THEN 0 ELSE pos.halfmove_clock + 1]

\* ------------------------------------------------------------------------
\* Board.legal_moves.
\* ------------------------------------------------------------------------
\* The squares a piece on s may go to along ray d: the empty ones up to the
\* first occupied square, and that one if it holds an enemy piece.
SlideTargets(sq, color, s, d) ==
    LET ray == Rays[s][d]
        h == FirstOccupied(sq, ray, 1)
    IN  {ray[i] : i \in 1 .. (h - 1)}
            \cup (IF h <= Len(ray) /\ sq[ray[h]] * Sign(color) < 0
                  THEN {ray[h]} ELSE {})

Promotions == {QUEEN, ROOK, BISHOP, KNIGHT}

PawnMoves(pos, s) ==
    LET c == Sign(pos.turn)
        sq == pos.sq
        one == s + 8 * c
        two == s + 16 * c
        startRank == IF pos.turn THEN 1 ELSE 6
        lastRank == IF pos.turn THEN 7 ELSE 0
        pushes == IF sq[one] # 0 THEN {}
                  ELSE {one} \cup (IF Rank(s) = startRank /\ sq[two] = 0
                                   THEN {two} ELSE {})
        takes == {t \in PawnCaptures[pos.turn][s] :
                     sq[t] * c < 0 \/ (t = pos.ep_square /\ sq[t] = 0)}
        targets == pushes \cup takes
    IN  {Move(s, t, 0) : t \in {u \in targets : Rank(u) # lastRank}}
            \cup {Move(s, t, p) : t \in {u \in targets : Rank(u) = lastRank},
                                  p \in Promotions}

PieceMoves(pos, s) ==
    LET sq == pos.sq
        c == Sign(pos.turn)
        type == Abs(sq[s])
        free(T) == {t \in T : sq[t] * c <= 0}
        dirs == CASE type = BISHOP -> 5 .. 8
                  [] type = ROOK -> 1 .. 4
                  [] OTHER -> 1 .. 8
    IN  CASE type = KNIGHT -> {Move(s, t, 0) : t \in free(KnightAttacks[s])}
          [] type = KING -> {Move(s, t, 0) : t \in free(KingAttacks[s])}
          [] OTHER ->
              {Move(s, t, 0) :
                  t \in UNION {SlideTargets(sq, pos.turn, s, d) : d \in dirs}}

\* Board.generate_castling_moves: the king on its home square, the right
\* still held, the squares between king and rook empty, and the king not
\* attacked on its way.
CastlingMoves(pos) ==
    LET sq == pos.sq
        home == IF pos.turn THEN E1 ELSE E8
        r == Rank(home)
        safe(S) == \A t \in S : ~is_attacked_by(sq, ~pos.turn, t)
        empty(S) == \A t \in S : sq[t] = 0
    IN  IF sq[home] # Sign(pos.turn) * KING THEN {}
        ELSE (IF /\ Sq(7, r) \in pos.castling_rights
                 /\ sq[Sq(7, r)] = Sign(pos.turn) * ROOK
                 /\ empty({Sq(5, r), Sq(6, r)})
                 /\ safe({Sq(4, r), Sq(5, r), Sq(6, r)})
              THEN {Move(home, Sq(6, r), 0)} ELSE {})
             \cup
             (IF /\ Sq(0, r) \in pos.castling_rights
                 /\ sq[Sq(0, r)] = Sign(pos.turn) * ROOK
                 /\ empty({Sq(1, r), Sq(2, r), Sq(3, r)})
                 /\ safe({Sq(4, r), Sq(3, r), Sq(2, r)})
              THEN {Move(home, Sq(2, r), 0)} ELSE {})

\* The mover's king is not attacked once the move is made.
LeavesKingSafe(pos, m) ==
    LET after == PushPosition(pos, m)
    IN  ~is_attacked_by(after.sq, after.turn, king(after.sq, pos.turn))

\* The legal moves of the piece on s, a square of the side to move: its
\* moves by the movement rules that leave the own king safe, and for the
\* king the castling moves.
LegalMovesFrom(pos, s) ==
    LET type == Abs(pos.sq[s])
        pseudo == IF type = PAWN THEN PawnMoves(pos, s) ELSE PieceMoves(pos, s)
    IN  {m \in pseudo : LeavesKingSafe(pos, m)}
            \cup (IF type = KING THEN CastlingMoves(pos) ELSE {})

OwnSquares(pos) == {s \in Squares : pos.sq[s] * Sign(pos.turn) > 0}

\* list(board.legal_moves) as a set.
legal_moves(pos) == UNION {LegalMovesFrom(pos, s) : s \in OwnSquares(pos)}

\* any(board.generate_legal_moves()).
any_legal_move(pos) == \E s \in OwnSquares(pos) : LegalMovesFrom(pos, s) # {}

\* Board._from_chess960(False, ...): in standard mode the king-takes-rook
\* spelling of castling (e1h1, e1a1, e8h8, e8a8) names the same move as the
\* king's two-square spelling (e1g1, e1c1, e8g8, e8c8).
from_chess960(pos, m) ==
    IF /\ m.promotion = 0
       /\ m.from_square \in {E1, E8}
       /\ Abs(pos.sq[m.from_square]) = KING
       /\ m.to_square \in {Sq(0, Rank(m.from_square)), Sq(7, Rank(m.from_square))}
    THEN Move(m.from_square,
              Sq(IF File(m.to_square) = 7 THEN 6 ELSE 2, Rank(m.from_square)), 0)
    ELSE m

\* "move in board.legal_moves" (Board.is_legal): a null move is never legal,
\* and a king's move is looked up under its standard spelling.
is_legal(pos, m) ==
    /\ m # NullMove
    /\ pos.sq[m.from_square] * Sign(pos.turn) > 0
    /\ from_chess960(pos, m) \in LegalMovesFrom(pos, m.from_square)

\* ------------------------------------------------------------------------
\* The board object: push, pop and the queries the game asks.
\* ------------------------------------------------------------------------
\* Board.push(move): the position is remembered on _stack, the move (in its
\* standard spelling) on move_stack.
push(b, m) ==
    LET n == from_chess960(b.pos, m)
    IN  [pos |-> PushPosition(b.pos, n),
         move_stack |-> Append(b.move_stack, n),
         stack |-> Append(b.stack, b.pos)]

Front(seq) == SubSeq(seq, 1, Len(seq) - 1)

\* Board.pop(): the position the last move was pushed on comes back.
pop(b) ==
    [pos |-> b.stack[Len(b.stack)],
     move_stack |-> Front(b.move_stack),
     stack |-> Front(b.stack)]

\* Board.is_capture(move): one of the two squares the move touches holds a
\* piece of the side that is NOT to move, or the move is en passant.
is_capture(pos, m) ==
    \/ /\ m.from_square # m.to_square
       /\ \/ pos.sq[m.from_square] * Sign(~pos.turn) > 0
          \/ pos.sq[m.to_square] * Sign(~pos.turn) > 0
    \/ is_en_passant_on(pos, m)

\* Board.gives_check(move): push, is_check, pop.
gives_check(pos, m) == is_check(PushPosition(pos, from_chess960(pos, m)))

is_checkmate(pos) == is_check(pos) /\ ~any_legal_move(pos)

is_stalemate(pos) == ~is_check(pos) /\ ~any_legal_move(pos)

\* Board.has_insufficient_material(color).
has_insufficient_material(sq, color) ==
    LET c == Sign(color)
        own == {s \in Squares : sq[s] * c > 0}
        theirs == {s \in Squares : sq[s] * c < 0}
        bishops == {s \in Squares : Abs(sq[s]) = BISHOP}
        dark(s) == (File(s) + Rank(s)) % 2 = 0
    IN  IF \E s \in own : Abs(sq[s]) \in {PAWN, ROOK, QUEEN} THEN FALSE
        ELSE IF \E s \in own : Abs(sq[s]) = KNIGHT
        THEN /\ Cardinality(own) <= 2
             /\ \A s \in theirs : Abs(sq[s]) \in {KING, QUEEN}
        ELSE IF \E s \in own : Abs(sq[s]) = BISHOP
        THEN /\ (\A s \in bishops : dark(s)) \/ (\A s \in bishops : ~dark(s))
             /\ \A s \in Squares : Abs(sq[s]) \notin {PAWN, KNIGHT}
        ELSE TRUE

is_insufficient_material(pos) ==
    has_insufficient_material(pos.sq, WHITE) /\ has_insufficient_material(pos.sq, BLACK)

\* Board.is_seventyfive_moves(): 150 half-moves without a pawn move or a
\* capture, and a move still to play.
is_seventyfive_moves(pos) == pos.halfmove_clock >= 150 /\ any_legal_move(pos)

has_legal_en_passant(pos) ==
    /\ pos.ep_square # NoSquare
    /\ \E m \in legal_moves(pos) : is_en_passant_on(pos, m)

\* Board._transposition_key(): what two positions must share to count as a
\* repetition.
transposition_key(pos) ==
    [sq |-> pos.sq,
     turn |-> pos.turn,
     castling_rights |-> pos.castling_rights,
     ep_square |-> IF has_legal_en_passant(pos) THEN pos.ep_square ELSE NoSquare]

\* Board.is_irreversible(move).
is_irreversible(pos, m) ==
    \/ is_zeroing(pos, m)
    \/ PushPosition(pos, m).castling_rights # pos.castling_rights
    \/ has_legal_en_passant(pos)

RECURSIVE Repeats(_, _, _, _)
\* Board.is_repetition(count), walking the stack back from its i-th entry:
\* each move is popped, the walk stops at an irreversible one, and every
\* position met that has the key counts once.
Repeats(b, key, i, count) ==
    IF count <= 1 THEN TRUE
    ELSE IF i < count - 1 THEN FALSE
    ELSE IF is_irreversible(b.stack[i], b.move_stack[i]) THEN FALSE
    ELSE Repeats(b, key, i - 1,
                 IF transposition_key(b.stack[i]) = key THEN count - 1 ELSE count)

is_fivefold_repetition(b) ==
    Repeats(b, transposition_key(b.pos), Len(b.move_stack), 5)

\* Board.is_game_over(): checkmate, insufficient material, no legal move,
\* the seventy-five-move rule or a fivefold repetition.
board_is_game_over(b) ==
    \/ is_checkmate(b.pos)
    \/ is_insufficient_material(b.pos)
    \/ ~any_legal_move(b.pos)
    \/ is_seventyfive_moves(b.pos)
    \/ is_fivefold_repetition(b)

\* ------------------------------------------------------------------------
\* Move.from_uci and Move.uci.  A string is the sequence of its characters.
\* ------------------------------------------------------------------------
FILE_NAMES == <<"a", "b", "c", "d", "e", "f", "g", "h">>

RANK_NAMES == <<"1", "2", "3", "4", "5", "6", "7", "8">>

\* PIECE_SYMBOLS[1 ..]: the letter of each piece type.
PIECE_SYMBOLS == <<"p", "n", "b", "r", "q", "k">>

\* list.index(x): the place of x in names, 0 when it is not there.
IndexOf(names, x) ==
    IF \E i \in 1 .. Len(names) : names[i] = x
    THEN CHOOSE i \in 1 .. Len(names) : names[i] = x
    ELSE 0

\* Move.from_uci(uci): "0000" is the null move; four or five characters
\* naming two different squares, and a piece letter, parse; anything else
\* raises InvalidMoveError (ok = FALSE).
from_uci(uci) ==
    IF uci = <<"0", "0", "0", "0">> THEN [ok |-> TRUE, move |-> NullMove]
    ELSE IF Len(uci) \notin {4, 5} THEN [ok |-> FALSE, move |-> NullMove]
    ELSE LET f1 == IndexOf(FILE_NAMES, uci[1])
             r1 == IndexOf(RANK_NAMES, uci[2])
             f2 == IndexOf(FILE_NAMES, uci[3])
             r2 == IndexOf(RANK_NAMES, uci[4])
             p == IF Len(uci) = 5 THEN IndexOf(PIECE_SYMBOLS, uci[5]) ELSE 0
         IN  IF \/ 0 \in {f1, r1, f2, r2}
                \/ Len(uci) = 5 /\ p = 0
                \/ (f1 = f2 /\ r1 = r2)
             THEN [ok |-> FALSE, move |-> NullMove]
             ELSE [ok |-> TRUE,
                   move |-> Move(Sq(f1 - 1, r1 - 1), Sq(f2 - 1, r2 - 1), p)]

\* Move.uci().
uci(m) ==
    IF m = NullMove THEN <<"0", "0", "0", "0">>
    ELSE <<FILE_NAMES[File(m.from_square) + 1], RANK_NAMES[Rank(m.from_square) + 1],
           FILE_NAMES[File(m.to_square) + 1], RANK_NAMES[Rank(m.to_square) + 1]>>
         \o (IF m.promotion # 0 THEN <<PIECE_SYMBOLS[m.promotion]>> ELSE <<>>)


\* ------------------------------------------------------------------------
\* class ChessGame (src/chess_engine.py).
\* ------------------------------------------------------------------------
\* Python's None where a move string is expected; no move string is empty.
None == <<>>

\* What a call hands back: a returned value, or an exception that leaves
\* the method.
Return(v) == [raised |-> FALSE, exc |-> "", value |-> v]

Raise(e) == [raised |-> TRUE, exc |-> e, value |-> <<>>]

CaptureText == "This move captures an opponent's piece to gain material."

CheckText == "This move puts the opponent's king in check."

CastlingText == "This is castling for king safety and rook activation."

EnPassantText == "This is an en passant capture."

CheckmateText == "Checkmate! The game is over."

StalemateText == "Stalemate! The game is drawn."

KnightText == "Developing a knight, controlling the center."

BishopText == "Developing a bishop, increasing activity."

QueenText == "Moving the queen, but be careful not to expose it early."

RookText == "Activating the rook, possibly to open files."

PawnText == "Advancing a pawn, controlling center or opening lines."

StandardText == "A standard move for piece activity or control."

IllegalText == "Illegal move."

GameOverText == "Game is already over."

LichessText == "Use Lichess cloud engine via app.py."

FallbackPrefix == "Fallback AI move: "

\* m is one of list(self.board.legal_moves).
InLegalSet(pos, m) ==
    /\ pos.sq[m.from_square] * Sign(pos.turn) > 0
    /\ m \in LegalMovesFrom(pos, m.from_square)

\* ChessGame.is_game_over.
is_game_over(b) == board_is_game_over(b)

\* ChessGame.get_legal_moves: the strings of the legal moves.
get_legal_moves(b) == {uci(m) : m \in legal_moves(b.pos)}

\* The sentence for the piece standing on the move's target square.
PieceText(pos, m) ==
    LET type == Abs(pos.sq[m.to_square])
    IN  CASE type = KNIGHT -> KnightText
          [] type = BISHOP -> BishopText
          [] type = QUEEN -> QueenText
          [] type = ROOK -> RookText
          [] type = PAWN -> PawnText
          [] OTHER -> StandardText

\* Board.push(move) as far as it gets when the move's from-square is empty:
\* the move and the position are already on the stacks and the clocks are
\* advanced when push asserts that a piece stands there.
HalfPush(b, m) ==
    [pos |-> [b.pos EXCEPT !.ep_square = NoSquare,
                           !.halfmove_clock = b.pos.halfmove_clock + 1],
     move_stack |-> Append(b.move_stack, from_chess960(b.pos, m)),
     stack |-> Append(b.stack, b.pos)]

\* An explain_move that looks for checkmate before it looks for a capture:
\* C10 tells it from explain_move.
explain_move_mate_first(b, m) ==
    IF is_checkmate(b.pos) THEN [board |-> b, ret |-> Return(CheckmateText)]
    ELSE IF is_capture(b.pos, m) THEN [board |-> b, ret |-> Return(CaptureText)]
    ELSE [board |-> b, ret |-> Return(PieceText(b.pos, m))]

\* ChessGame.explain_move(move), read on the board b as it is when the
\* method runs: the board it leaves and what it returns.  gives_check
\* pushes the move on that board before it looks, and pops it after; when
\* the push asserts, nothing pops it.
explain_move(b, m) ==
    IF is_capture(b.pos, m) THEN [board |-> b, ret |-> Return(CaptureText)]
    ELSE IF b.pos.sq[m.from_square] = 0
    THEN [board |-> HalfPush(b, m), ret |-> Raise("AssertionError")]
    ELSE [board |-> b,
          ret |-> IF gives_check(b.pos, m) THEN Return(CheckText)
                  ELSE IF is_castling_on(b.pos, m) THEN Return(CastlingText)
                  ELSE IF is_en_passant_on(b.pos, m) THEN Return(EnPassantText)
                  ELSE IF is_checkmate(b.pos) THEN Return(CheckmateText)
                  ELSE IF is_stalemate(b.pos) THEN Return(StalemateText)
                  ELSE Return(PieceText(b.pos, m))]

\* "self.board.push(move); explanation = self.explain_move(move)" and the
\* pair a caller builds from them: the move is pushed first, and explained
\* on the board it leaves.
PushAndExplain(b, m, first) ==
    LET e == explain_move(push(b, m), m)
    IN  [board |-> e.board,
         ret |-> IF e.ret.raised THEN e.ret
                 ELSE Return(<<first, <<e.ret.value>>>>)]

\* A push_move that reports a legal move as played and leaves the board as
\* it was: C1 tells it from push_move.
push_move_unapplied(b, move_uci) ==
    LET parsed == from_uci(move_uci)
    IN  IF ~parsed.ok THEN [board |-> b, ret |-> Raise("InvalidMoveError")]
        ELSE IF is_legal(b.pos, parsed.move)
        THEN [board |-> b, ret |-> Return(<<TRUE, <<CaptureText>>>>)]
        ELSE [board |-> b, ret |-> Return(<<FALSE, <<IllegalText>>>>)]

\* ChessGame.push_move(move_uci).
push_move(b, move_uci) ==
    LET parsed == from_uci(move_uci)
    IN  IF ~parsed.ok THEN [board |-> b, ret |-> Raise("InvalidMoveError")]
        ELSE IF is_legal(b.pos, parsed.move)
        THEN PushAndExplain(b, parsed.move, TRUE)
        ELSE [board |-> b, ret |-> Return(<<FALSE, <<IllegalText>>>>)]

\* A fallback_ai_move that hands the explanation on without the label:
\* C8 tells it from fallback_ai_move.
fallback_ai_move_unlabelled(b, explanation) ==
    IF legal_moves(b.pos) = {}
    THEN {[board |-> b, ret |-> Raise("IndexError")]}
    ELSE {[board |-> push(b, m), ret |-> Return(<<uci(m), explanation>>)] :
              m \in legal_moves(b.pos)}

\* ChessGame.fallback_ai_move(explanation): random.choice over the legal
\* moves (IndexError on an empty list), pushed and not explained.
fallback_ai_move(b, explanation) ==
    LET legal == legal_moves(b.pos)
    IN  IF legal = {}
        THEN {[board |-> b, ret |-> Raise("IndexError")]}
        ELSE {[board |-> push(b, m),
               ret |-> Return(<<uci(m), <<FallbackPrefix>> \o explanation>>)] :
                  m \in legal}

\* A turn of the check loop whose pop restores the position and keeps the
\* move on the move stack: C19 tells it from check_step.
check_step_keeps_move(loop, m) ==
    LET pushed == push(loop.board, m)
    IN  [board |-> [pop(pushed) EXCEPT !.move_stack = pushed.move_stack],
         check_moves |-> IF is_check(pushed.pos) THEN loop.check_moves \cup {m}
                         ELSE loop.check_moves]

\* One turn of the check loop of select_heuristic_move: the candidate is
\* pushed on the board as the turn before left it, the position is asked
\* is_check(), and the candidate is popped.
check_step(loop, m) ==
    LET pushed == push(loop.board, m)
    IN  [board |-> pop(pushed),
         check_moves |-> IF is_check(pushed.pos) THEN loop.check_moves \cup {m}
                         ELSE loop.check_moves]

RECURSIVE speculate(_, _)
\* The check loop over the candidates still to do.  The board the loop
\* leaves is handed back with the candidates that gave check.  (Each turn's
\* outcome is bound once, as the one element of a set, before the next turn
\* starts from it.)
speculate(loop, todo) ==
    IF todo = {} THEN loop
    ELSE LET m == CHOOSE x \in todo : TRUE
         IN  CHOOSE done \in {speculate(next, rest) :
                                 next \in {check_step(loop, m)},
                                 rest \in {todo \ {m}}} : TRUE

\* random.choice(moves) on board b: the move drawn is handed back, not
\* pushed; IndexError on an empty list.
random_choice(b, moves) ==
    IF moves = {}
    THEN {[board |-> b, ret |-> Raise("IndexError")]}
    ELSE {[board |-> b, ret |-> Return(m)] : m \in moves}

\* A select_heuristic_move without the preference for captures: C6 tells
\* it from select_heuristic_move.
select_heuristic_move_any(b) == random_choice(b, legal_moves(b.pos))

\* A select_heuristic_move that prefers centre moves to checks: C18 tells it
\* from select_heuristic_move.
select_heuristic_move_center_first(b) ==
    LET legal == legal_moves(b.pos)
        capture_moves == {m \in legal : is_capture(b.pos, m)}
        center_moves == {m \in legal : m.to_square \in CENTER_SQUARES}
    IN  IF capture_moves # {} THEN random_choice(b, capture_moves)
        ELSE UNION {random_choice(loop.board,
                                  IF center_moves # {} THEN center_moves
                                  ELSE IF loop.check_moves # {} THEN loop.check_moves
                                  ELSE legal) :
                       loop \in {speculate([board |-> b, check_moves |-> {}], legal)}}

\* ChessGame.select_heuristic_move: every move it may return, with the board
\* it leaves.  The legal moves are listed once, on entry; captures come
\* before checks before centre moves before the rest, and with a capture
\* among the legal moves the check loop is not reached.
select_heuristic_move(b) ==
    LET legal == legal_moves(b.pos)
        capture_moves == {m \in legal : is_capture(b.pos, m)}
        center_moves == {m \in legal : m.to_square \in CENTER_SQUARES}
    IN  IF capture_moves # {} THEN random_choice(b, capture_moves)
        ELSE UNION {random_choice(loop.board,
                                  IF loop.check_moves # {} THEN loop.check_moves
                                  ELSE IF center_moves # {} THEN center_moves
                                  ELSE legal) :
                       loop \in {speculate([board |-> b, check_moves |-> {}], legal)}}

\* A choice that returns the move it drew and pushes another of the list:
\* C5 tells it from ChooseAndExplain.
ChooseAndPushAnother(b, moves) ==
    IF moves = {}
    THEN {[board |-> b, ret |-> Raise("IndexError")]}
    ELSE LET other == CHOOSE m \in moves : TRUE
         IN  {[board |-> push(b, other),
               ret |-> Return(<<uci(m), <<CaptureText>>>>)] : m \in moves}

\* random.choice(moves), the move pushed and explained.
ChooseAndExplain(b, moves) ==
    IF moves = {}
    THEN {[board |-> b, ret |-> Raise("IndexError")]}
    ELSE {PushAndExplain(b, m, uci(m)) : m \in moves}

\* What the local engine may do once ai_move starts it.
EngineBehaviours ==
    {"popen_fails", "play_fails", "no_move", "answers", "close_fails"}

StockfishError == <<"Stockfish error: ", "engine failure">>

\* The hard tier's local engine branch for one behaviour of the engine and
\* one answer of it.  A failure before the answer is pushed reaches the
\* except clause with the board as it was; a failure of the engine's close,
\* when the with-block is left by the return, reaches it with the answer
\* already pushed.
engine_branch(b, engine, answer) ==
    CASE engine \in {"popen_fails", "play_fails", "no_move"} ->
            fallback_ai_move(b, StockfishError)
      [] engine = "answers" ->
            LET o == PushAndExplain(b, answer, uci(answer))
            IN  IF o.ret.raised THEN fallback_ai_move(o.board, StockfishError)
                ELSE {o}
      [] engine = "close_fails" ->
            LET o == PushAndExplain(b, answer, uci(answer))
            IN  fallback_ai_move(o.board, StockfishError)

\* An ai_move whose hard tier falls back for the cloud source too: C16 tells
\* it from ai_move.
ai_move_cloud_falls_back(b, path, level, engine_source, engine, answer) ==
    IF is_game_over(b)
    THEN {[board |-> b, ret |-> Return(<<None, <<GameOverText>>>>)]}
    ELSE IF level = "easy" THEN ChooseAndExplain(b, legal_moves(b.pos))
    ELSE IF level = "intermediate"
    THEN {IF o.ret.raised THEN o
          ELSE PushAndExplain(o.board, o.ret.value, uci(o.ret.value)) :
             o \in select_heuristic_move(b)}
    ELSE IF level = "hard"
    THEN IF engine_source = "local" /\ path # "None"
         THEN engine_branch(b, engine, answer)
         ELSE fallback_ai_move(b, <<"No engine available.">>)
    ELSE fallback_ai_move(b, <<"Unknown difficulty level.">>)

\* An ai_move that plays nothing for a level it does not know: C20 tells it
\* from ai_move.
ai_move_unknown_plays_nothing(b, path, level, engine_source, engine, answer) ==
    IF is_game_over(b)
    THEN {[board |-> b, ret |-> Return(<<None, <<GameOverText>>>>)]}
    ELSE IF level = "easy" THEN ChooseAndExplain(b, legal_moves(b.pos))
    ELSE IF level = "intermediate"
    THEN {IF o.ret.raised THEN o
          ELSE PushAndExplain(o.board, o.ret.value, uci(o.ret.value)) :
             o \in select_heuristic_move(b)}
    ELSE IF level = "hard"
    THEN IF engine_source = "local" /\ path # "None"
         THEN engine_branch(b, engine, answer)
         ELSE IF engine_source = "lichess"
         THEN {[board |-> b, ret |-> Return(<<None, <<LichessText>>>>)]}
         ELSE fallback_ai_move(b, <<"No engine available.">>)
    ELSE {[board |-> b, ret |-> Return(<<None, <<"Unknown difficulty level.">>>>)]}

\* An ai_move without the check of lines 41-42: C7 tells it from ai_move.
ai_move_unchecked(b, path, level, engine_source, engine, answer) ==
    IF level = "easy" THEN ChooseAndExplain(b, legal_moves(b.pos))
    ELSE IF level = "intermediate"
    THEN {IF o.ret.raised THEN o
          ELSE PushAndExplain(o.board, o.ret.value, uci(o.ret.value)) :
             o \in select_heuristic_move(b)}
    ELSE IF level = "hard"
    THEN IF engine_source = "local" /\ path # "None"
         THEN engine_branch(b, engine, answer)
         ELSE IF engine_source = "lichess"
         THEN {[board |-> b, ret |-> Return(<<None, <<LichessText>>>>)]}
         ELSE fallback_ai_move(b, <<"No engine available.">>)
    ELSE fallback_ai_move(b, <<"Unknown difficulty level.">>)

\* ChessGame.ai_move(level, engine_source): every outcome the call can have.
ai_move(b, path, level, engine_source, engine, answer) ==
    IF is_game_over(b)
    THEN {[board |-> b, ret |-> Return(<<None, <<GameOverText>>>>)]}
    ELSE IF level = "easy" THEN ChooseAndExplain(b, legal_moves(b.pos))
    ELSE IF level = "intermediate"
    THEN {IF o.ret.raised THEN o
          ELSE PushAndExplain(o.board, o.ret.value, uci(o.ret.value)) :
             o \in select_heuristic_move(b)}
    ELSE IF level = "hard"
    THEN IF engine_source = "local" /\ path # "None"
         THEN engine_branch(b, engine, answer)
         ELSE IF engine_source = "lichess"
         THEN {[board |-> b, ret |-> Return(<<None, <<LichessText>>>>)]}
         ELSE fallback_ai_move(b, <<"No engine available.">>)
    ELSE fallback_ai_move(b, <<"Unknown difficulty level.">>)

\* ------------------------------------------------------------------------
\* The state: one ChessGame under a caller that makes one call at a time.
\* ------------------------------------------------------------------------
VARIABLES
    board,        \* self.board
    engine_path,  \* self.engine_path: "None" or the path of an engine
    pc,           \* the caller: "idle", or "returned" from the call below
    call,         \* the call last made, with the board it was made on and
                  \* what is_game_over() was on that board
    ret,          \* what that call handed back
    calls,        \* how many calls have changed the board (or, on the page,
                  \* handed it a move of the cloud service) since the opening
    session_state \* st.session_state of src/app.py, but for its game: history,
                  \* move_explanation, ai_difficulty and ai_engine_source

vars == <<board, engine_path, pc, call, ret, calls, session_state>>

\* The most calls that change the board, after the opening of a game.
MaxCalls == 1

QuietMateOpening ==
    <<<<"f", "2", "f", "3">>, <<"e", "7", "e", "5">>, <<"g", "2", "g", "4">>>>

\* Fool's mate: White is mated.
MatedOpening == QuietMateOpening \o <<<<"d", "8", "h", "4">>>>

CaptureMateOpening ==
    <<<<"e", "2", "e", "4">>, <<"e", "7", "e", "5">>, <<"d", "1", "h", "5">>,
      <<"e", "8", "e", "7">>>>

CaptureOpening == <<<<"e", "2", "e", "4">>, <<"d", "7", "d", "5">>>>

CastlingOpening ==
    <<<<"g", "1", "f", "3">>, <<"g", "8", "f", "6">>, <<"e", "2", "e", "3">>,
      <<"f", "6", "g", "8">>, <<"f", "1", "e", "2">>, <<"g", "8", "f", "6">>>>

\* The knights go out and back: after the sixteenth move the starting
\* position stands for the fifth time.
Shuffle ==
    <<<<"g", "1", "f", "3">>, <<"g", "8", "f", "6">>, <<"f", "3", "g", "1">>,
      <<"f", "6", "g", "8">>>>

RepetitionOpening == Shuffle \o Shuffle \o Shuffle \o Shuffle

\* The games already played when the caller of this model takes over: none,
\* and openings that lead to a mate in one by a quiet move, to a mate, to a
\* mate in one by a capture, to a capture, to castling, and to a fivefold
\* repetition.
Openings ==
    {<<>>, QuietMateOpening, MatedOpening, CaptureMateOpening, CaptureOpening,
     CastlingOpening, RepetitionOpening}

RECURSIVE Played(_, _, _)
\* The board of a new ChessGame after push_move of line[i], line[i+1], ...
Played(b, line, i) ==
    IF i > Len(line) THEN b ELSE Played(push_move(b, line[i]).board, line, i + 1)

OpeningBoards == {Played(NewBoard, line, 1) : line \in Openings}

NoCall ==
    [op |-> "none", move_uci |-> None, level |-> "", engine_source |-> "",
     engine |-> "", board |-> NewBoard, over |-> FALSE]

NoRet == Return(<<>>)

\* st.session_state as lines 55-62 of src/app.py make it.  The empty string
\* is the empty sequence.
NewSession ==
    [history |-> <<>>, move_explanation |-> <<>>, ai_difficulty |-> "Easy",
     ai_engine_source |-> "Local Stockfish"]

\* The strings a caller hands to push_move: moves that are legal after one
\* opening or another, a move that is never legal, the null move and three
\* strings that are no moves.
InputMoves ==
    {<<"d", "8", "h", "4">>, <<"h", "5", "e", "5">>, <<"e", "4", "d", "5">>,
     <<"g", "1", "f", "3">>, <<"f", "6", "g", "8">>, <<"e", "1", "g", "1">>,
     <<"e", "1", "h", "1">>, <<"e", "2", "e", "4">>, <<"e", "7", "e", "5">>,
     <<"e", "2", "e", "5">>, <<"0", "0", "0", "0">>,
     <<"e", "2">>, <<"e", "2", "e", "9">>, <<"e", "7", "e", "8", "x">>}

Levels == {"easy", "intermediate", "hard", "expert"}

EngineSources == {"local", "lichess"}

\* The moves the local engine may answer with: those of InputMoves that are
\* in the legal-move set.
EngineAnswers(b) ==
    {from_uci(s).move : s \in {t \in InputMoves :
                                 from_uci(t).ok /\ InLegalSet(b.pos, from_uci(t).move)}}

Init ==
    /\ board \in OpeningBoards
    /\ engine_path = "None"
    /\ pc = "idle"
    /\ call = NoCall
    /\ ret = NoRet
    /\ calls = 0
    /\ session_state = NewSession

\* A caller calls push_move(move_uci) with one of the strings of InputMoves.
PushMove ==
    /\ pc = "idle"
    /\ calls < MaxCalls
    /\ LET over == is_game_over(board)
       IN  \E s \in InputMoves :
              LET o == push_move(board, s)
              IN  /\ board' = o.board
                  /\ ret' = o.ret
                  /\ calls' = IF o.board # board THEN calls + 1 ELSE calls
                  /\ call' = [NoCall EXCEPT !.op = "push_move", !.move_uci = s,
                                            !.board = board, !.over = over]
    /\ pc' = "returned"
    /\ UNCHANGED <<engine_path, session_state>>

\* A caller calls ai_move(level, engine_source).  The engine's behaviour and
\* answer are drawn only where the call reaches the engine.
AiMove ==
    /\ pc = "idle"
    /\ calls < MaxCalls
    /\ LET over == is_game_over(board)
       IN  \E level \in Levels, engine_source \in EngineSources :
              LET reaches == /\ level = "hard"
                             /\ engine_source = "local"
                             /\ engine_path # "None"
                             /\ ~over
              IN  \E engine \in IF reaches THEN EngineBehaviours ELSE {""} :
                  \E answer \in IF reaches /\ engine \in {"answers", "close_fails"}
                                THEN EngineAnswers(board) ELSE {NullMove} :
                  \E o \in ai_move(board, engine_path, level, engine_source,
                                   engine, answer) :
                      /\ board' = o.board
                      /\ ret' = o.ret
                      /\ calls' = IF o.board # board THEN calls + 1 ELSE calls
                      /\ call' = [NoCall EXCEPT !.op = "ai_move", !.level = level,
                                                !.engine_source = engine_source,
                                                !.engine = engine, !.board = board,
                                                !.over = over]
    /\ pc' = "returned"
    /\ UNCHANGED <<engine_path, session_state>>

\* The owner of the game sets engine_path, as the constructor's comment
\* asks of whoever has an engine.
SetEnginePath ==
    /\ pc = "idle"
    /\ engine_path = "None"
    /\ engine_path' = "stockfish"
    /\ UNCHANGED <<board, pc, call, ret, calls, session_state>>

\* ChessGame(): a new game.
NewGame ==
    /\ pc = "idle"
    /\ board' = NewBoard
    /\ engine_path' = "None"
    /\ calls' = 0
    /\ UNCHANGED <<pc, call, ret, session_state>>

\* The caller has looked at what the call handed back.
Done ==
    /\ pc = "returned"
    /\ pc' = "idle"
    /\ call' = NoCall
    /\ ret' = NoRet
    /\ UNCHANGED <<board, engine_path, calls, session_state>>

Next == PushMove \/ AiMove \/ SetEnginePath \/ NewGame \/ Done

Spec == Init /\ [][Next]_vars

\* ------------------------------------------------------------------------
\* The page of src/app.py: the script runs once for each button pressed, on
\* the game and the session state the run before it left.
\* ------------------------------------------------------------------------
\* The games already played with Make Move when this model takes over.
AppOpenings == {<<>>, QuietMateOpening, CastlingOpening}

\* move_explanation after the moves of a line: what push_move returned for
\* the last of them.
LastExplanation(line) ==
    IF line = <<>> THEN <<>>
    ELSE push_move(Played(NewBoard, Front(line), 1), line[Len(line)]).ret.value[2]

\* The game and the session state after each of the openings.
AppStarts ==
    {[board |-> Played(NewBoard, line, 1),
      session_state |-> [NewSession EXCEPT
                            !.history = line,
                            !.move_explanation = LastExplanation(line)]] :
        line \in AppOpenings}

AppInit ==
    /\ \E start \in AppStarts :
          /\ board = start.board
          /\ session_state = start.session_state
    /\ engine_path = "None"
    /\ pc = "idle"
    /\ call = NoCall
    /\ ret = NoRet
    /\ calls = 0

Difficulties == {"Easy", "Intermediate", "Hard"}

Sources == {"Local Stockfish", "Lichess Cloud"}

\* st.session_state.ai_difficulty.lower()
lower(difficulty) ==
    CASE difficulty = "Easy" -> "easy"
      [] difficulty = "Intermediate" -> "intermediate"
      [] difficulty = "Hard" -> "hard"

\* The sidebar: the difficulty chosen, and the engine source, which can be
\* chosen only for "Hard" and is "Local Stockfish" otherwise.
Configure ==
    /\ pc = "idle"
    /\ \E ai_difficulty \in Difficulties, ai_engine_source \in Sources :
          session_state' =
              [session_state EXCEPT
                  !.ai_difficulty = ai_difficulty,
                  !.ai_engine_source = IF ai_difficulty = "Hard"
                                       THEN ai_engine_source
                                       ELSE "Local Stockfish"]
    /\ session_state' # session_state
    /\ UNCHANGED <<board, engine_path, pc, call, ret, calls>>

\* The Make Move button with selected_move one of the strings of InputMoves:
\* push_move is called only for a string of the list of legal moves, and the
\* history and the explanation follow only its success.
MakeMove ==
    /\ pc = "idle"
    /\ calls < MaxCalls
    /\ \E legal_moves_list \in {get_legal_moves(board)},
          over \in {is_game_over(board)}, selected_move \in InputMoves :
          \E o \in {IF selected_move \in legal_moves_list
                    THEN push_move(board, selected_move)
                    ELSE [board |-> board, ret |-> NoRet]} :
              LET is_valid_uci == selected_move \in legal_moves_list
                  success == is_valid_uci /\ ~o.ret.raised /\ o.ret.value[1] = TRUE
              IN  /\ board' = o.board
                  /\ ret' = o.ret
                  /\ session_state' =
                        IF success
                        THEN [session_state EXCEPT
                                 !.history = Append(@, selected_move),
                                 !.move_explanation = o.ret.value[2]]
                        ELSE session_state
                  /\ calls' = IF o.board # board THEN calls + 1 ELSE calls
                  /\ call' = [NoCall EXCEPT !.op = "Make Move",
                                            !.move_uci = selected_move,
                                            !.board = board, !.over = over]
    /\ pc' = "returned"
    /\ UNCHANGED engine_path

\* What lichess_best_move may hand back: a string of InputMoves, or None.
BestMoves == InputMoves \cup {None}

\* The AI Move button, shown while the game is not over and a legal move
\* exists.  With "Hard" and "Lichess Cloud" the service's move is handed to
\* push_move and appended to the history whatever push_move returns;
\* otherwise ai_move is called and its move, if any, appended.  An exception
\* ends the run where it is raised.
AiMoveButton ==
    /\ pc = "idle"
    /\ calls < MaxCalls
    /\ ~is_game_over(board)
    /\ legal_moves(board.pos) # {}
    /\ LET level == lower(session_state.ai_difficulty)
           engine_source == IF session_state.ai_engine_source = "Local Stockfish"
                            THEN "local" ELSE "lichess"
           made == [NoCall EXCEPT !.op = "AI Move", !.level = level,
                                  !.engine_source = engine_source,
                                  !.board = board]
       IN  IF level = "hard" /\ engine_source = "lichess"
           THEN \E best_move \in BestMoves :
                   \E o \in {IF best_move # None THEN push_move(board, best_move)
                             ELSE [board |-> board, ret |-> NoRet]} :
                       /\ board' = o.board
                       /\ ret' = o.ret
                       /\ session_state' =
                             IF best_move # None /\ ~o.ret.raised
                             THEN [session_state EXCEPT
                                      !.history = Append(@, best_move),
                                      !.move_explanation =
                                          <<"Lichess Cloud recommends: ", best_move>>]
                             ELSE session_state
                       /\ calls' = IF best_move # None THEN calls + 1 ELSE calls
                       /\ call' = [made EXCEPT !.move_uci = best_move]
           ELSE \E o \in ai_move(board, engine_path, level, engine_source,
                                 "", NullMove) :
                   /\ board' = o.board
                   /\ ret' = o.ret
                   /\ session_state' =
                         IF ~o.ret.raised /\ o.ret.value[1] # None
                         THEN [session_state EXCEPT
                                  !.history = Append(@, o.ret.value[1]),
                                  !.move_explanation = o.ret.value[2]]
                         ELSE session_state
                   /\ calls' = IF o.board # board THEN calls + 1 ELSE calls
                   /\ call' = made
    /\ pc' = "returned"
    /\ UNCHANGED engine_path

\* A Restart Game button that forgets to empty the history: C15 tells it
\* from Restart.
Restart_keeps_history ==
    /\ pc = "idle"
    /\ board' = NewBoard
    /\ engine_path' = "None"
    /\ session_state' = [session_state EXCEPT !.move_explanation = <<>>]
    /\ calls' = 0
    /\ call' = [NoCall EXCEPT !.op = "Restart Game", !.board = board]
    /\ ret' = NoRet
    /\ pc' = "returned"

\* The Restart Game button: a new ChessGame, an empty history and an empty
\* explanation.
Restart ==
    /\ pc = "idle"
    /\ board' = NewBoard
    /\ engine_path' = "None"
    /\ session_state' = [session_state EXCEPT !.history = <<>>,
                                              !.move_explanation = <<>>]
    /\ calls' = 0
    /\ call' = [NoCall EXCEPT !.op = "Restart Game", !.board = board]
    /\ ret' = NoRet
    /\ pc' = "returned"

AppNext == Configure \/ MakeMove \/ AiMoveButton \/ Restart \/ Done

AppSpec == AppInit /\ [][AppNext]_vars

\* ------------------------------------------------------------------------
\* select_heuristic_move as a function of the board: it is applied once, by
\* itself or by ai_move(level='intermediate'), to a board a game can reach.
\* ------------------------------------------------------------------------
\* White to move with no capture, no check and no move to a centre square.
ClosedOpening ==
    <<<<"d", "2", "d", "4">>, <<"e", "7", "e", "5">>, <<"a", "2", "a", "3">>,
      <<"e", "5", "e", "4">>, <<"a", "3", "a", "4">>, <<"d", "7", "d", "5">>>>

HeuristicOpenings == Openings \cup {ClosedOpening}

\* Each opening up to each of its moves.
HeuristicLines ==
    UNION {{SubSeq(line, 1, k) : k \in 0 .. Len(line)} : line \in HeuristicOpenings}

\* The board after each move of each of the openings.
HeuristicBoards == {Played(NewBoard, line, 1) : line \in HeuristicLines}

HeuristicInit ==
    /\ board \in HeuristicBoards
    /\ engine_path = "None"
    /\ pc = "idle"
    /\ call = NoCall
    /\ ret = NoRet
    /\ calls = 0
    /\ session_state = NewSession

\* A caller calls select_heuristic_move(): the move it returns is not pushed.
SelectHeuristicMove ==
    /\ pc = "idle"
    /\ \E o \in select_heuristic_move(board) :
          /\ board' = o.board
          /\ ret' = o.ret
    /\ call' = [NoCall EXCEPT !.op = "select_heuristic_move", !.board = board,
                              !.over = is_game_over(board)]
    /\ pc' = "returned"
    /\ UNCHANGED <<engine_path, calls, session_state>>

\* A caller calls ai_move(level='intermediate', engine_source).
IntermediateMove ==
    /\ pc = "idle"
    /\ \E engine_source \in EngineSources :
       \E o \in ai_move(board, engine_path, "intermediate", engine_source, "",
                        NullMove) :
          /\ board' = o.board
          /\ ret' = o.ret
          /\ call' = [NoCall EXCEPT !.op = "ai_move", !.level = "intermediate",
                                    !.engine_source = engine_source,
                                    !.board = board,
                                    !.over = is_game_over(board)]
    /\ pc' = "returned"
    /\ UNCHANGED <<engine_path, calls, session_state>>

HeuristicNext == SelectHeuristicMove \/ IntermediateMove

HeuristicSpec == HeuristicInit /\ [][HeuristicNext]_vars


\* ------------------------------------------------------------------------
\* What the claims speak of, read off a state in which a call has returned.
\* ------------------------------------------------------------------------
ReturnedFrom(op) == pc = "returned" /\ call.op = op

\* The string is the coordinate string of a move of the legal-move set.
LegalString(pos, str) == from_uci(str).ok /\ InLegalSet(pos, from_uci(str).move)

\* The board is b with move m applied once by the rules library.
AppliedOnce(b, m) ==
    /\ board.pos = PushPosition(b.pos, m)
    /\ board.move_stack = Append(b.move_stack, m)
    /\ board.stack = Append(b.stack, b.pos)
    /\ board.pos.turn = ~b.pos.turn

\* The call returned the pair <<first, explanation>>.
Returned(first, explanation) == ret = Return(<<first, explanation>>)

\* C1: push_move of a string of the legal-move set returns ok = true, and the
\* board afterwards is the board of the call with that move applied once: one
\* more move on the stack, the side to move flipped, and nothing else.
C1_LegalMoveApplied ==
    (ReturnedFrom("push_move") /\ LegalString(call.board.pos, call.move_uci))
        => /\ ~ret.raised
           /\ ret.value[1] = TRUE
           /\ AppliedOnce(call.board, from_uci(call.move_uci).move)

C1_Witness ==
    /\ ReturnedFrom("push_move")
    /\ LegalString(call.board.pos, call.move_uci)
    /\ ~ret.raised
    /\ ret.value[1] = TRUE
    /\ Len(board.move_stack) = Len(call.board.move_stack) + 1

\* C2: push_move of a string that parses as a coordinate move and is not in
\* the legal-move set returns (False, "Illegal move.") and leaves the board as
\* it was.
C2_IllegalMoveRejected ==
    (/\ ReturnedFrom("push_move")
     /\ from_uci(call.move_uci).ok
     /\ ~LegalString(call.board.pos, call.move_uci))
        => /\ Returned(FALSE, <<IllegalText>>)
           /\ board = call.board

\* C3: push_move of a string that does not parse returns ok = false with a
\* message other than "Illegal move.", raises nothing and leaves the board as
\* it was.
C3_MalformedReported ==
    (ReturnedFrom("push_move") /\ ~from_uci(call.move_uci).ok)
        => /\ ~ret.raised
           /\ ret.value[1] = FALSE
           /\ ret.value[2] # <<IllegalText>>
           /\ board = call.board

\* C4: once is_game_over() is true, push_move of a move string returns
\* ok = false and leaves the board as it was (stated for the strings that
\* parse; the others are C3's).
C4_NoMoveAfterGameOver ==
    (/\ ReturnedFrom("push_move")
     /\ from_uci(call.move_uci).ok
     /\ call.over)
        => /\ ~ret.raised
           /\ ret.value[1] = FALSE
           /\ board = call.board

\* An ai_move call made on a board on which the game is not over.
AiCallOn(level) ==
    /\ ReturnedFrom("ai_move")
    /\ call.level = level
    /\ ~call.over

\* The call returned the coordinate string of a move of the legal-move set of
\* the board it was made on, and the board is that board with that move
\* applied once.
ReturnedMoveApplied ==
    /\ ~ret.raised
    /\ LegalString(call.board.pos, ret.value[1])
    /\ AppliedOnce(call.board, from_uci(ret.value[1]).move)

\* C5: on a board on which the game is not over, ai_move(level='easy')
\* returns a move of the legal-move set of that board, that move is the one
\* applied, and the list it draws from is not empty (no IndexError).
C5_EasyMoveLegal == AiCallOn("easy") => ReturnedMoveApplied

C5_Witness == AiCallOn("easy") /\ ReturnedMoveApplied

\* C6: on a board on which the game is not over and some legal move is a
\* capture, the move ai_move(level='intermediate') returns and applies is a
\* capture on that board.
C6_IntermediateCaptures ==
    AiCallOn("intermediate")
        => /\ ~ret.raised
           /\ from_uci(ret.value[1]).ok
           /\ \/ is_capture(call.board.pos, from_uci(ret.value[1]).move)
              \/ \A m \in legal_moves(call.board.pos) : ~is_capture(call.board.pos, m)
           /\ AppliedOnce(call.board, from_uci(ret.value[1]).move)

C6_Witness ==
    /\ AiCallOn("intermediate")
    /\ ~ret.raised
    /\ is_capture(call.board.pos, from_uci(ret.value[1]).move)
    /\ AppliedOnce(call.board, from_uci(ret.value[1]).move)

\* C7: when the game is over at the call, ai_move returns
\* (None, "Game is already over.") and leaves the board as it was, for every
\* level and every engine source.
C7_AiMoveGameOver ==
    (ReturnedFrom("ai_move") /\ call.over)
        => /\ Returned(None, <<GameOverText>>)
           /\ board = call.board

C7_Witness ==
    /\ ReturnedFrom("ai_move")
    /\ call.over
    /\ call.level = "hard"
    /\ call.engine_source = "local"
    /\ engine_path # "None"
    /\ Returned(None, <<GameOverText>>)

\* C8: with no engine set, ai_move(level='hard', engine_source='local') on a
\* board on which the game is not over raises nothing, applies one move of
\* the legal-move set, returns its string, and labels the explanation as a
\* fallback.
C8_NoEngineFallback ==
    (AiCallOn("hard") /\ call.engine_source = "local" /\ engine_path = "None")
        => /\ ReturnedMoveApplied
           /\ Head(ret.value[2]) = FallbackPrefix

C8_Witness ==
    /\ AiCallOn("hard")
    /\ call.engine_source = "local"
    /\ engine_path = "None"
    /\ ReturnedMoveApplied
    /\ ret.value[2] = <<FallbackPrefix, "No engine available.">>

\* C9: with an engine set, whatever the point at which the engine fails,
\* ai_move(level='hard', engine_source='local') raises nothing and returns a
\* legal fallback move under a fallback-labelled explanation.
C9_EngineFailureFallsBack ==
    (/\ AiCallOn("hard")
     /\ call.engine \in {"popen_fails", "play_fails", "no_move", "close_fails"})
        => /\ ~ret.raised
           /\ Head(ret.value[2]) = FallbackPrefix
           /\ from_uci(ret.value[1]).ok
           /\ board.move_stack # <<>>
           /\ from_uci(ret.value[1]).move = board.move_stack[Len(board.move_stack)]
           /\ InLegalSet(board.stack[Len(board.stack)], from_uci(ret.value[1]).move)

\* The call explained the move it applied with explain_move.
ExplainedMove ==
    /\ pc = "returned"
    /\ ~ret.raised
    /\ \/ call.op = "push_move" /\ ret.value[1] = TRUE
       \/ /\ call.op = "ai_move"
          /\ ret.value[1] # None
          /\ \/ call.level \in {"easy", "intermediate"}
             \/ call.level = "hard" /\ call.engine = "answers"
    /\ Len(board.move_stack) = Len(call.board.move_stack) + 1

LastMove == board.move_stack[Len(board.move_stack)]

\* C10: a move that is a capture on the board it is played on and mates is
\* explained by the capture sentence, never by the checkmate sentence.
C10_CaptureBeatsCheckmate ==
    (/\ ExplainedMove
     /\ is_capture(call.board.pos, LastMove)
     /\ is_checkmate(board.pos))
        => ret.value[2] = <<CaptureText>>

C10_Witness ==
    /\ ExplainedMove
    /\ is_capture(call.board.pos, LastMove)
    /\ is_checkmate(board.pos)
    /\ ret.value[2] = <<CaptureText>>

\* The move a push_move call was given, when it is of the legal-move set.
PushedMove == from_uci(call.move_uci).move

\* C11: push_move of a legal move that is no capture, gives no check, is
\* neither castling nor en passant (all judged on the board before the move)
\* and leaves neither checkmate nor stalemate returns ok = true with the
\* sentence of the moved piece's type; e2e4 from the start returns the pawn
\* sentence.
C11_QuietMoveNamesPiece ==
    (/\ ReturnedFrom("push_move")
     /\ LegalString(call.board.pos, call.move_uci)
     /\ ~is_capture(call.board.pos, PushedMove)
     /\ ~gives_check(call.board.pos, PushedMove)
     /\ ~is_castling_on(call.board.pos, PushedMove)
     /\ ~is_en_passant_on(call.board.pos, PushedMove)
     /\ ~is_checkmate(board.pos)
     /\ ~is_stalemate(board.pos))
        => Returned(TRUE, <<PieceText(board.pos, PushedMove)>>)

\* C12: push_move of a legal move that captures nothing and mates returns
\* ok = true with "Checkmate! The game is over.".
C12_QuietMateExplained ==
    (/\ ReturnedFrom("push_move")
     /\ LegalString(call.board.pos, call.move_uci)
     /\ ~is_capture(call.board.pos, PushedMove)
     /\ is_checkmate(board.pos))
        => Returned(TRUE, <<CheckmateText>>)

\* The coordinate strings of the moves on the board's move stack, in order.
AppliedMoves == [i \in 1..Len(board.move_stack) |-> uci(board.move_stack[i])]

\* C13: on the page, the move history is the ordered sequence of the moves
\* applied to the board since the last restart: one entry for each applied
\* move and none for anything else.
C13_HistoryIsAppliedMoves == session_state.history = AppliedMoves

\* A step of the Restart Game button.
RestartStep == pc = "idle" /\ pc' = "returned" /\ call'.op = "Restart Game"

\* C15: Restart leaves the starting position and an empty history and keeps
\* the difficulty and the engine source; no step empties the history without
\* resetting the board, or resets the board without emptying the history.
C15_RestartResetsTogether ==
    [][/\ RestartStep =>
            /\ board' = NewBoard
            /\ session_state'.history = <<>>
            /\ session_state'.ai_difficulty = session_state.ai_difficulty
            /\ session_state'.ai_engine_source = session_state.ai_engine_source
       /\ (session_state.history # <<>> /\ session_state'.history = <<>>)
            => board' = NewBoard
       /\ (board # NewBoard /\ board' = NewBoard)
            => session_state'.history = <<>>]_vars

C15_Witness ==
    /\ ReturnedFrom("Restart Game")
    /\ call.board # NewBoard
    /\ board = NewBoard
    /\ session_state.history = <<>>
    /\ session_state.ai_difficulty = "Hard"
    /\ session_state.ai_engine_source = "Lichess Cloud"

\* The position that followed the i-th move of the board's move stack.
PositionAfter(i) ==
    IF i < Len(board.move_stack) THEN board.stack[i + 1] ELSE board.pos

\* C14: the board is a legal, reachable position: every move on its stack was
\* of the legal-move set of the position it was applied to, and the position
\* that followed is that position with the move applied.
C14_OnlyLegalMovesApplied ==
    /\ Len(board.stack) = Len(board.move_stack)
    /\ \A i \in 1..Len(board.move_stack) :
          /\ InLegalSet(board.stack[i], board.move_stack[i])
          /\ PositionAfter(i) = PushPosition(board.stack[i], board.move_stack[i])

\* C16: on a board on which the game is not over,
\* ai_move(level='hard', engine_source='lichess') returns None with its
\* message and leaves the board as it was.
C16_CloudSourceAppliesNothing ==
    (AiCallOn("hard") /\ call.engine_source = "lichess")
        => /\ Returned(None, <<LichessText>>)
           /\ board = call.board

C16_Witness ==
    /\ AiCallOn("hard")
    /\ call.engine_source = "lichess"
    /\ engine_path # "None"
    /\ legal_moves(call.board.pos) # {}
    /\ Returned(None, <<LichessText>>)
    /\ board = call.board

\* C17: every ai_move call ends with no move applied and None returned, or
\* with one move applied and that move's string returned; none raises,
\* applies two moves or applies a move other than the one it returns.
C17_OneMoveOrNone ==
    ReturnedFrom("ai_move")
        => /\ ~ret.raised
           /\ \/ ret.value[1] = None /\ board = call.board
              \/ /\ ret.value[1] # None
                 /\ from_uci(ret.value[1]).ok
                 /\ AppliedOnce(call.board, from_uci(ret.value[1]).move)

\* The legal moves of the board of the call, those of them that leave the
\* opponent in check, and those whose destination is a centre square.
CallLegal == legal_moves(call.board.pos)

CallChecks == {m \in CallLegal : gives_check(call.board.pos, m)}

CallCenter == {m \in CallLegal : m.to_square \in {E4, D4, E5, D5}}

NoLegalCapture == \A m \in CallLegal : ~is_capture(call.board.pos, m)

\* C18: ai_move(level='intermediate') on a board on which the game is not
\* over and no legal move is a capture applies and returns one move: a move
\* that gives check if some legal move does; else a move to e4, d4, e5 or d5
\* if some legal move goes there; else a legal move.
C18_CascadeOrder ==
    (AiCallOn("intermediate") /\ NoLegalCapture)
        => /\ ReturnedMoveApplied
           /\ LET chosen == from_uci(ret.value[1]).move
              IN  IF CallChecks # {} THEN chosen \in CallChecks
                  ELSE IF CallCenter # {} THEN chosen \in CallCenter
                  ELSE chosen \in CallLegal

\* A move that gives check is chosen although a centre move is at hand.
C18_Witness ==
    /\ AiCallOn("intermediate")
    /\ NoLegalCapture
    /\ ReturnedMoveApplied
    /\ from_uci(ret.value[1]).move \in CallChecks
    /\ CallCenter \ CallChecks # {}

\* C19: select_heuristic_move leaves the board as it found it, position,
\* move stack and position stack, whatever it returns; the move it returns
\* is of the legal-move set of the position at entry, and where no legal
\* move is a capture and some legal move gives check on that position, the
\* move returned is one that does.
C19_BoardUnchanged ==
    ReturnedFrom("select_heuristic_move")
        => /\ board = call.board
           /\ ret.raised <=> CallLegal = {}
           /\ ~ret.raised
                => /\ ret.value \in CallLegal
                   /\ (NoLegalCapture /\ CallChecks # {}) => ret.value \in CallChecks

\* The check loop has run over the legal moves of a game under way.
C19_Witness ==
    /\ ReturnedFrom("select_heuristic_move")
    /\ ~ret.raised
    /\ NoLegalCapture
    /\ CallLegal # {}
    /\ call.board.move_stack # <<>>
    /\ board = call.board

\* C20: for a level other than easy, intermediate and hard, on a board on
\* which the game is not over, ai_move raises nothing, applies one move of the
\* legal-move set, returns its string and explains it as a fallback for an
\* unknown difficulty level.
C20_UnknownLevelFallsBack ==
    (/\ ReturnedFrom("ai_move")
     /\ call.level \notin {"easy", "intermediate", "hard"}
     /\ ~call.over)
        => /\ ReturnedMoveApplied
           /\ ret.value[2] = <<FallbackPrefix, "Unknown difficulty level.">>

C20_Witness ==
    /\ AiCallOn("expert")
    /\ ReturnedMoveApplied
    /\ ret.value[2] = <<FallbackPrefix, "Unknown difficulty level.">>

====
